---- MODULE Spec2Model ----
(***************************************************************************)
(* InfraBot: the task orchestrator (core/infrabot.py), the fast-path       *)
(* router, the artifact extractor (agents/crew.py) and the context store   *)
(* (core/memory.py), with the external executor (utils/ansible_runner.py), *)
(* the model-serving pipeline and the storage engine as nondeterministic   *)
(* collaborators.                                                          *)
(*                                                                         *)
(* Python strings are TLA+ strings; Len, SubSeq and \o act on them         *)
(* character by character.                                                 *)
(***************************************************************************)
EXTENDS Integers, Sequences, FiniteSets, TLC

(***************************************************************************)
(* Python values and dicts                                                 *)
(***************************************************************************)

\* A Python value: its type tag and its str() rendering.
None == [t |-> "none", v |-> ""]

Str(s) == [t |-> "str", v |-> s]

Bool(b) == [t |-> "bool", v |-> IF b THEN "True" ELSE "False"]

Num(s) == [t |-> "int", v |-> s]

\* bool(x): None, "", 0 and False are falsy.
Truthy(x) ==
  CASE x.t = "none" -> FALSE
    [] x.t = "str" -> x.v # ""
    [] x.t = "bool" -> x.v = "True"
    [] x.t = "int" -> x.v # "0"

\* type(x).__name__
TypeName(x) == IF x.t = "none" THEN "NoneType" ELSE x.t

\* len(x) is defined for strings only (TypeError otherwise).
HasLen(x) == x.t = "str"

\* str.split exists on strings only (AttributeError otherwise).
HasSplit(x) == x.t = "str"

\* A dict is a function from its keys; d.get(k) is None for a missing key.
Get(d, k) == IF k \in DOMAIN d THEN d[k] ELSE None

EmptyDict == [k \in {} |-> None]

\* d[k] = x
Put(d, k, x) == [j \in DOMAIN d \cup {k} |-> IF j = k THEN x ELSE d[j]]

(***************************************************************************)
(* str methods                                                             *)
(***************************************************************************)

UpperChars == "ABCDEFGHIJKLMNOPQRSTUVWXYZ"

LowerChars == "abcdefghijklmnopqrstuvwxyz"

Char(s, i) == SubSeq(s, i, i)

LowerChar(c) ==
  IF \E i \in 1..Len(UpperChars) : Char(UpperChars, i) = c
  THEN Char(LowerChars, CHOOSE i \in 1..Len(UpperChars) : Char(UpperChars, i) = c)
  ELSE c

RECURSIVE Lower(_)
\* s.lower(), character by character (by halves).
Lower(s) ==
  IF Len(s) <= 1 THEN LowerChar(s)
  ELSE Lower(SubSeq(s, 1, Len(s) \div 2)) \o Lower(SubSeq(s, Len(s) \div 2 + 1, Len(s)))

\* k in s
Contains(s, k) ==
  \E i \in 1..(Len(s) - Len(k) + 1) : SubSeq(s, i, i + Len(k) - 1) = k

\* s.startswith(p)
StartsWith(s, p) == Len(p) <= Len(s) /\ SubSeq(s, 1, Len(p)) = p

IsSpace(c) == c \in {" ", "\t", "\n", "\r"}

\* s.lstrip()
LStrip(s) ==
  IF \A i \in 1..Len(s) : IsSpace(Char(s, i)) THEN ""
  ELSE SubSeq(s, CHOOSE i \in 1..Len(s) :
                   ~IsSpace(Char(s, i)) /\ \A j \in 1..(i - 1) : IsSpace(Char(s, j)),
              Len(s))

\* s.rstrip()
RStrip(s) ==
  IF \A i \in 1..Len(s) : IsSpace(Char(s, i)) THEN ""
  ELSE SubSeq(s, 1, CHOOSE i \in 1..Len(s) :
                      ~IsSpace(Char(s, i)) /\ \A j \in (i + 1)..Len(s) : IsSpace(Char(s, j)))

\* s.strip()
Strip(s) == RStrip(LStrip(s))

RECURSIVE Split(_, _)
\* s.split(sep) for a one-character sep: always at least one piece.
Split(s, sep) ==
  IF \E i \in 1..Len(s) : Char(s, i) = sep
  THEN LET i == CHOOSE j \in 1..Len(s) :
                  Char(s, j) = sep /\ \A h \in 1..(j - 1) : Char(s, h) # sep
       IN <<SubSeq(s, 1, i - 1)>> \o Split(SubSeq(s, i + 1, Len(s)), sep)
  ELSE <<s>>

RECURSIVE Join(_, _)
\* sep.join(parts)
Join(parts, sep) ==
  IF parts = <<>> THEN ""
  ELSE IF Len(parts) = 1 THEN parts[1]
  ELSE parts[1] \o sep \o Join(Tail(parts), sep)

RECURSIVE Replace(_, _, _)
\* s.replace(old, new) for a non-empty old: every occurrence, left to right.
Replace(s, old, new) ==
  IF ~Contains(s, old) THEN s
  ELSE LET i == CHOOSE j \in 1..Len(s) :
                  /\ SubSeq(s, j, j + Len(old) - 1) = old
                  /\ \A h \in 1..(j - 1) : SubSeq(s, h, h + Len(old) - 1) # old
       IN SubSeq(s, 1, i - 1) \o new \o Replace(SubSeq(s, i + Len(old), Len(s)), old, new)

\* any(k in s for k in ks)
AnyIn(ks, s) == \E i \in 1..Len(ks) : Contains(s, ks[i])

(***************************************************************************)
(* Fast-path router: InfraBot._get_os_commands, _execute_simple_query      *)
(***************************************************************************)

\* platform.system()
Systems == {"Darwin", "Linux", "Windows", "FreeBSD"}

\* The gate list of execute_task.
simple_keywords ==
  <<"time", "date", "disk", "space", "usage", "memory", "uptime", "status",
    "show", "check", "get", "user", "users", "list", "who", "whoami", "name",
    "current">>

\* The Darwin mapping, in the dict's insertion order.
DarwinCommands ==
  <<
    <<"time", "date">>,
    <<"date", "date">>,
    <<"disk", "df -h">>,
    <<"disk space", "df -h">>,
    <<"disk usage", "df -h">>,
    <<"memory", "vm_stat | head -10">>,
    <<"memory usage", "vm_stat | head -10">>,
    <<"ram", "vm_stat | head -10">>,
    <<"uptime", "uptime">>,
    <<"load", "uptime">>,
    <<"status", "uptime && df -h && vm_stat | head -5">>,
    <<"system", "uptime && df -h && vm_stat | head -5">>,
    <<"processes", "ps aux | head -10">>,
    <<"cpu", "top -l1 -s0 | head -15">>,
    <<"cpu usage", "top -l1 -s0 | head -15">>,
    <<"user", "whoami">>,
    <<"user name", "whoami">>,
    <<"current user", "whoami">>,
    <<"users", "dscl . list /Users | grep -v ^_">>,
    <<"list users", "dscl . list /Users | grep -v ^_">>,
    <<"local users", "dscl . list /Users | grep -v ^_">>
  >>

\* The Linux mapping.
LinuxCommands ==
  <<
    <<"time", "date">>,
    <<"date", "date">>,
    <<"disk", "df -h">>,
    <<"disk space", "df -h">>,
    <<"disk usage", "df -h">>,
    <<"memory", "free -h">>,
    <<"memory usage", "free -h">>,
    <<"ram", "free -h">>,
    <<"uptime", "uptime">>,
    <<"load", "uptime">>,
    <<"status", "uptime && free -h && df -h">>,
    <<"system", "uptime && free -h && df -h">>,
    <<"processes", "ps aux | head -10">>,
    <<"cpu", "top -bn1 | head -20">>,
    <<"cpu usage", "top -bn1 | head -20">>,
    <<"user", "whoami">>,
    <<"user name", "whoami">>,
    <<"current user", "whoami">>,
    <<"users", "cut -d: -f1 /etc/passwd | grep -v ^# | sort">>,
    <<"list users", "cut -d: -f1 /etc/passwd | grep -v ^# | sort">>,
    <<"local users", "cut -d: -f1 /etc/passwd | grep -v ^# | sort">>
  >>

\* The mapping of Windows and of every other system.
OtherCommands(system) ==
  <<
    <<"time", IF system # "Windows" THEN "date" ELSE "echo %date% %time%">>,
    <<"date", IF system # "Windows" THEN "date" ELSE "echo %date% %time%">>,
    <<"disk", IF system # "Windows" THEN "df -h" ELSE "dir C:">>,
    <<"disk space", IF system # "Windows" THEN "df -h" ELSE "dir C:">>,
    <<"disk usage", IF system # "Windows" THEN "df -h" ELSE "dir C:">>,
    <<"memory", "echo \"Memory info not available on this platform\"">>,
    <<"memory usage", "echo \"Memory info not available on this platform\"">>,
    <<"ram", "echo \"Memory info not available on this platform\"">>,
    <<"uptime", IF system # "Windows" THEN "uptime" ELSE "systeminfo | findstr \"Boot Time\"">>,
    <<"load", IF system # "Windows" THEN "uptime" ELSE "systeminfo | findstr \"Boot Time\"">>,
    <<"status", "echo \"System status not fully supported on this platform\"">>,
    <<"system", "echo \"System info not fully supported on this platform\"">>,
    <<"processes", IF system # "Windows" THEN "ps aux | head -10" ELSE "tasklist /FI \"STATUS eq RUNNING\"">>,
    <<"cpu", "echo \"CPU info not available on this platform\"">>,
    <<"cpu usage", "echo \"CPU info not available on this platform\"">>,
    <<"user", IF system # "Windows" THEN "whoami" ELSE "echo %username%">>,
    <<"user name", IF system # "Windows" THEN "whoami" ELSE "echo %username%">>,
    <<"current user", IF system # "Windows" THEN "whoami" ELSE "echo %username%">>,
    <<"users", "echo \"User listing not available on this platform\"">>,
    <<"list users", "echo \"User listing not available on this platform\"">>,
    <<"local users", "echo \"User listing not available on this platform\"">>
  >>

\* Each entry of a mapping is <<keyword, command>>.
get_os_commands(system) ==
  IF system = "Darwin" THEN DarwinCommands
  ELSE IF system = "Linux" THEN LinuxCommands
  ELSE OtherCommands(system)

RECURSIVE ScanFirstMatch(_, _, _)
\* A selection that stops at the first keyword found in the description.
ScanFirstMatch(query_map, task_lower, i) ==
  IF i > Len(query_map) THEN [command |-> None, best_match_length |-> 0]
  ELSE IF Contains(task_lower, query_map[i][1])
  THEN [command |-> Str(query_map[i][2]), best_match_length |-> Len(query_map[i][1])]
  ELSE ScanFirstMatch(query_map, task_lower, i + 1)

RECURSIVE ScanKeywords(_, _, _, _)
\* The loop over query_map.items(): acc is (command, best_match_length).
ScanKeywords(query_map, task_lower, i, acc) ==
  IF i > Len(query_map) THEN acc
  ELSE LET keyword == query_map[i][1]
           cmd == query_map[i][2]
       IN ScanKeywords(query_map, task_lower, i + 1,
            IF Contains(task_lower, keyword) /\ Len(keyword) > acc.best_match_length
            THEN [command |-> Str(cmd), best_match_length |-> Len(keyword)]
            ELSE acc)

SelectFirstMatch(system, task_description) ==
  ScanFirstMatch(get_os_commands(system), Lower(task_description), 1).command

\* The command _execute_simple_query selects (None when no keyword matches).
SelectCommand(system, task_description) ==
  ScanKeywords(get_os_commands(system), Lower(task_description), 1,
               [command |-> None, best_match_length |-> 0]).command

\* The gate of execute_task: any(keyword in task_description.lower() ...).
IsSimpleQuery(task_description) == AnyIn(simple_keywords, Lower(task_description))

(***************************************************************************)
(* External executor: AnsibleRunner.run_ad_hoc, run_playbook               *)
(***************************************************************************)

\* The temporary inventory file AnsibleRunner.__init__ creates.
DefaultInventory == "/tmp/tmpinv.ini"

\* What the executor's process can do: exit with a status, time out, or fail
\* to start.
ProcOutcomes ==
  { [kind |-> "exit", rc |-> "0", stdout |-> "ok\n", stderr |-> ""],
    [kind |-> "exit", rc |-> "0", stdout |-> "", stderr |-> ""],
    [kind |-> "exit", rc |-> "2", stdout |-> "", stderr |-> "failed"],
    [kind |-> "timeout", rc |-> "", stdout |-> "", stderr |-> ""],
    [kind |-> "oserror", rc |-> "", stdout |-> "", stderr |-> ""] }

\* The dict both run_ad_hoc and run_playbook build from the process outcome.
RunResult(cmd, timeout_msg, o) ==
  IF o.kind = "exit"
  THEN [success |-> Bool(o.rc = "0"), returncode |-> Num(o.rc),
        stdout |-> Str(o.stdout), stderr |-> Str(o.stderr), command |-> Str(cmd)]
  ELSE IF o.kind = "timeout"
  THEN [success |-> Bool(FALSE), error |-> Str(timeout_msg), command |-> Str(cmd)]
  ELSE [success |-> Bool(FALSE), error |-> Str("[Errno 2] No such file or directory"),
        command |-> Str(cmd)]

run_ad_hoc(hosts, module, args, o) ==
  RunResult("ansible " \o hosts \o " -i " \o DefaultInventory \o " -m " \o module
              \o (IF args # "" THEN " -a " \o args ELSE ""),
            "Command execution timed out", o)

run_playbook(playbook_path, o) ==
  RunResult("ansible-playbook " \o playbook_path \o " -i " \o DefaultInventory,
            "Playbook execution timed out", o)

\* d.get(k, default)
GetOr(d, k, default) == IF k \in DOMAIN d THEN d[k] ELSE default

\* A query that runs its command a second time when the first run failed.
execute_simple_query_retry(system, task_description, o) ==
  LET command == SelectCommand(system, task_description)
      ansible_result == run_ad_hoc("localhost", "shell", command.v, o)
      call == [args |-> command.v, res |-> ansible_result]
  IN IF Truthy(command)
     THEN [adhoc |-> IF Truthy(Get(ansible_result, "success")) THEN <<call>>
                     ELSE <<call, call>>,
           ret |-> IF Truthy(Get(ansible_result, "success"))
                      /\ Truthy(Get(ansible_result, "stdout"))
                   THEN [success |-> Bool(TRUE), output |-> ansible_result["stdout"],
                         task |-> Str(task_description)]
                   ELSE [success |-> Bool(FALSE),
                         error |-> GetOr(ansible_result, "stderr", Str("No output"))]]
     ELSE [adhoc |-> <<>>,
           ret |-> [success |-> Bool(FALSE), error |-> Str("No command mapping found")]]

\* _execute_simple_query, given the executor's outcome for the command it
\* selects: ret is what it returns, adhoc the ad-hoc results it obtained (none
\* when no keyword matches).
execute_simple_query(system, task_description, o) ==
  LET command == SelectCommand(system, task_description)
  IN IF Truthy(command)
     THEN LET ansible_result == run_ad_hoc("localhost", "shell", command.v, o)
          IN [adhoc |-> <<[args |-> command.v, res |-> ansible_result]>>,
              ret |-> IF Truthy(Get(ansible_result, "success"))
                         /\ Truthy(Get(ansible_result, "stdout"))
                      THEN [success |-> Bool(TRUE), output |-> ansible_result["stdout"],
                            task |-> Str(task_description)]
                      ELSE [success |-> Bool(FALSE),
                            error |-> GetOr(ansible_result, "stderr", Str("No output"))]]
     ELSE [adhoc |-> <<>>,
           ret |-> [success |-> Bool(FALSE), error |-> Str("No command mapping found")]]

(***************************************************************************)
(* Artifact extractor: InfraCrew._parse_crew_result                        *)
(***************************************************************************)

\* The line the tag loop looks at: line = line.strip().
TagLine(line) == Strip(line)

\* One pass of the tag loop: st is (result, current_section, final_code_lines).
TagStep(st, raw_line) ==
  LET line == TagLine(raw_line)
  IN IF StartsWith(line, "STATUS:")
     THEN [st EXCEPT !.result =
             Put(@, "review_status", Str(Strip(Replace(line, "STATUS:", ""))))]
     ELSE IF StartsWith(line, "APPROACH:")
     THEN [st EXCEPT !.result =
             Put(@, "approach", Str(Lower(Strip(Replace(line, "APPROACH:", "")))))]
     ELSE IF StartsWith(line, "RESULT:") \/ StartsWith(line, "OUTPUT:")
     THEN [st EXCEPT !.result =
             Put(@, "actual_result",
                 Str(Strip(Replace(Replace(line, "RESULT:", ""), "OUTPUT:", ""))))]
     ELSE IF StartsWith(line, "FINAL_CODE:")
     THEN [st EXCEPT !.current_section = "final_code"]
     ELSE IF st.current_section = "final_code" /\ line # ""
     THEN [st EXCEPT !.final_code_lines = Append(@, line)]
     ELSE st

RECURSIVE TagLoop(_, _, _)
\* for line in lines: the line-tagged extraction.
TagLoop(lines, i, st) ==
  IF i > Len(lines) THEN st ELSE TagLoop(lines, i + 1, TagStep(st, lines[i]))

\* The YAML content indicators.
yaml_indicators == <<"yaml", "playbook", "hosts:", "tasks:", "---">>

\* The command substrings of the fallback.
command_substrings ==
  <<"apt install", "yum install", "dnf install", "systemctl", "service">>

RECURSIVE YamlLoop(_, _, _, _)
\* for line in lines: the YAML sniff; returns playbook_lines. The loop ends
\* at the end of the text or at its break.
YamlLoop(lines, i, yaml_start, playbook_lines) ==
  IF i > Len(lines) THEN playbook_lines
  ELSE LET line == lines[i]
           line_strip == Strip(line)
       IN IF StartsWith(line_strip, "---")
             \/ (StartsWith(line_strip, "hosts:") \/ Contains(line, "hosts: localhost"))
          THEN YamlLoop(lines, i + 1, TRUE, Append(playbook_lines, line))
          ELSE IF yaml_start /\ (StartsWith(line, " ") \/ StartsWith(line_strip, "- name:")
                                 \/ StartsWith(line_strip, "tasks:")
                                 \/ StartsWith(line_strip, "become:")
                                 \/ StartsWith(line_strip, "- ") \/ line_strip = "")
          THEN YamlLoop(lines, i + 1, yaml_start, Append(playbook_lines, line))
          ELSE IF yaml_start /\ ~StartsWith(line, " ") /\ line_strip # ""
          THEN playbook_lines
          ELSE YamlLoop(lines, i + 1, yaml_start, playbook_lines)

\* The playbook the fallback synthesizes around one line.
ShellPlaybook(line) ==
  "---\n- hosts: localhost\n  become: yes\n  tasks:\n    - name: Execute command\n      shell: "
    \o Strip(line) \o "\n"

RECURSIVE CommandLoopLast(_, _)
\* A command sniff that takes the last matching line.
CommandLoopLast(lines, i) ==
  IF i > Len(lines) THEN None
  ELSE LET rest == CommandLoopLast(lines, i + 1)
       IN IF rest # None THEN rest
          ELSE IF AnyIn(command_substrings, Lower(lines[i]))
          THEN Str(ShellPlaybook(lines[i]))
          ELSE None

RECURSIVE CommandLoop(_, _)
\* for line in lines: the command sniff; the playbook of the first line that
\* holds a command substring, None when there is none.
CommandLoop(lines, i) ==
  IF i > Len(lines) THEN None
  ELSE IF AnyIn(command_substrings, Lower(lines[i]))
  THEN Str(ShellPlaybook(lines[i]))
  ELSE CommandLoop(lines, i + 1)

\* The YAML sniff and, if it found nothing, the command sniff.
Fallback(raw_output, lines) ==
  LET playbook_lines ==
        IF AnyIn(yaml_indicators, Lower(raw_output))
        THEN YamlLoop(lines, 1, FALSE, <<>>)
        ELSE <<>>
      yaml_content ==
        IF playbook_lines # <<>> /\ Len(playbook_lines) > 2
        THEN Str(Strip(Join(playbook_lines, "\n")))
        ELSE None
  IN IF ~Truthy(yaml_content) THEN CommandLoop(lines, 1) ELSE yaml_content

\* An extractor that tries the sniffs first and uses the lines captured after
\* FINAL_CODE: only when they found nothing.
parse_sniff_first(raw_output, task_description) ==
  LET result == [task |-> Str(task_description), raw_output |-> raw_output,
                 playbook_content |-> None, approach |-> Str("unknown"),
                 status |-> Str("completed")]
  IN IF ~HasSplit(raw_output)
     THEN Put(Put(result, "error",
                  Str("Failed to parse crew result: '" \o TypeName(raw_output)
                        \o "' object has no attribute 'split'")),
              "status", Str("error"))
     ELSE LET lines == Split(raw_output.v, "\n")
              st == TagLoop(lines, 1, [result |-> result, current_section |-> "none",
                                      final_code_lines |-> <<>>])
              sniffed == Fallback(raw_output.v, lines)
          IN IF st.final_code_lines # <<>> /\ ~Truthy(sniffed)
             THEN Put(st.result, "playbook_content", Str(Join(st.final_code_lines, "\n")))
             ELSE Put(st.result, "playbook_content", sniffed)

\* _parse_crew_result, given crew_result.raw (any Python value).
parse_crew_result(raw_output, task_description) ==
  LET result == [task |-> Str(task_description), raw_output |-> raw_output,
                 playbook_content |-> None, approach |-> Str("unknown"),
                 status |-> Str("completed")]
  IN IF ~HasSplit(raw_output)
     THEN \* raw_output.split raises inside the try
          Put(Put(result, "error",
                  Str("Failed to parse crew result: '" \o TypeName(raw_output)
                        \o "' object has no attribute 'split'")),
              "status", Str("error"))
     ELSE LET lines == Split(raw_output.v, "\n")
              st == TagLoop(lines, 1, [result |-> result, current_section |-> "none",
                                      final_code_lines |-> <<>>])
          IN IF st.final_code_lines # <<>>
             THEN Put(st.result, "playbook_content", Str(Join(st.final_code_lines, "\n")))
             ELSE Put(st.result, "playbook_content", Fallback(raw_output.v, lines))

(***************************************************************************)
(* Planner context: InfraCrew.execute_task                                 *)
(***************************************************************************)

\* successful_playbooks[:2]
PromptArtifacts == 2

\* pb['content'][:500]
SolutionPrefix == 500

\* A selection that takes every playbook, whatever its success flag.
any_playbooks(context) ==
  SelectSeq(context, LAMBDA c : c.type = "playbook")

\* [c for c in context if c.get("type") == "playbook"
\*    and c.get("metadata", {}).get("success")]
successful_playbooks(context) ==
  SelectSeq(context, LAMBDA c : c.type = "playbook" /\ Truthy(Get(c.metadata, "success")))

\* The artifacts that go into the prompt: for pb in successful_playbooks[:2],
\* the task of its metadata and pb['content'][:500].
planner_artifacts(context) ==
  LET chosen == SubSeq(successful_playbooks(context), 1,
                       IF Len(successful_playbooks(context)) < PromptArtifacts
                       THEN Len(successful_playbooks(context)) ELSE PromptArtifacts)
  IN [i \in 1..Len(chosen) |->
        [task |-> GetOr(chosen[i].metadata, "task", Str("N/A")).v,
         solution |-> SubSeq(chosen[i].content, 1,
                             IF Len(chosen[i].content) < SolutionPrefix
                             THEN Len(chosen[i].content) ELSE SolutionPrefix)]]

RECURSIVE ArtifactsText(_, _)
\* context_str += "Task: ...\n" + "Solution: ......\n\n", for each artifact.
ArtifactsText(artifacts, i) ==
  IF i > Len(artifacts) THEN ""
  ELSE "Task: " \o artifacts[i].task \o "\n"
       \o "Solution: " \o artifacts[i].solution \o "...\n\n"
       \o ArtifactsText(artifacts, i + 1)

\* context_str, the part of the Planner prompt built from the context.
context_str(context) ==
  IF planner_artifacts(context) = <<>> THEN ""
  ELSE "\n\nRelevant past successful approaches:\n"
       \o ArtifactsText(planner_artifacts(context), 1)

(***************************************************************************)
(* str(), repr() and json.dumps of the values that are stored              *)
(***************************************************************************)

\* The escapes repr() and json.dumps share: the quote, the backslash and the
\* control characters of the texts at hand.
EscapeChar(c, quote) ==
  IF c = "" THEN ""
  ELSE IF c = quote THEN "\\" \o quote
  ELSE IF c = "\\" THEN "\\\\"
  ELSE IF c = "\n" THEN "\\n"
  ELSE IF c = "\t" THEN "\\t"
  ELSE IF c = "\r" THEN "\\r"
  ELSE c

RECURSIVE Escape(_, _)
\* s with every character escaped (by halves).
Escape(s, quote) ==
  IF Len(s) <= 1 THEN EscapeChar(s, quote)
  ELSE Escape(SubSeq(s, 1, Len(s) \div 2), quote)
         \o Escape(SubSeq(s, Len(s) \div 2 + 1, Len(s)), quote)

\* repr(x)
Repr(x) ==
  IF x.t = "str"
  THEN IF Contains(x.v, "'") /\ ~Contains(x.v, "\"")
       THEN "\"" \o Escape(x.v, "") \o "\""
       ELSE "'" \o Escape(x.v, "'") \o "'"
  ELSE IF x.t = "none" THEN "None"
  ELSE x.v

\* json.dumps(x) of a scalar
JsonValue(x) ==
  IF x.t = "str" THEN "\"" \o Escape(x.v, "\"") \o "\""
  ELSE IF x.t = "none" THEN "null"
  ELSE IF x.t = "bool" THEN Lower(x.v)
  ELSE x.v

\* The keys of the dicts of this program, in the order the code inserts them
\* (the optional keys of the extractor's result in the order of its branches).
KeyOrder ==
  <<"success", "returncode", "stdout", "stderr", "output", "task", "raw_output",
    "playbook_content", "approach", "status", "review_status", "actual_result",
    "error", "command">>

\* The present keys of d, in KeyOrder.
Keys(d) == SelectSeq(KeyOrder, LAMBDA k : k \in DOMAIN d)

\* The item "'k': repr(v)" of str(d)
StrItem(d, k) == "'" \o k \o "': " \o Repr(d[k])

\* str(d) of a dict
StrDict(d) ==
  "{" \o Join([i \in 1..Len(Keys(d)) |-> StrItem(d, Keys(d)[i])], ", ") \o "}"

\* The item '  "k": v' of json.dumps(d, indent=2)
JsonItem(d, k) == "  \"" \o k \o "\": " \o JsonValue(d[k])

\* json.dumps(d, indent=2)
JsonDumps(d) ==
  IF DOMAIN d = {} THEN "{}"
  ELSE "{\n"
       \o Join([i \in 1..Len(Keys(d)) |-> JsonItem(d, Keys(d)[i])], ",\n")
       \o "\n}"

(***************************************************************************)
(* Context store: BotMemory                                                *)
(***************************************************************************)

\* A stored entry: its id (the uuid, here the tick it was drawn at, and the
\* suffix), its document, metadata['timestamp'] (in clock ticks) and the rest
\* of its metadata.
Entry(doc_id, suffix, document, timestamp, metadata) ==
  [id |-> [doc |-> doc_id, suffix |-> suffix], document |-> document,
   timestamp |-> timestamp, metadata |-> metadata]

\* The three partitions, empty.
EmptyStore == [interactions |-> <<>>, playbooks |-> <<>>, results |-> <<>>]

\* store_interaction when the collection accepts the write; now is both the
\* uuid drawn and the time read.
store_interaction(store, now, interaction_type, content) ==
  [store EXCEPT !.interactions =
     Append(@, Entry(now, "", content, now, [type |-> Str(interaction_type)]))]

\* store_playbook_execution; written is how many of its two writes the
\* storage takes before raising (2: both, no exception).
store_playbook_execution(store, now, task_description, playbook_content, result, written) ==
  LET success == Bool(Truthy(GetOr(result, "success", Bool(FALSE))))
      pb == Entry(now, "_playbook", playbook_content, now,
                  [task |-> Str(task_description), success |-> success,
                   type |-> Str("playbook")])
      rs == Entry(now, "_result", JsonDumps(result), now,
                  [task |-> Str(task_description), success |-> success,
                   type |-> Str("execution_result")])
  IN [store EXCEPT !.playbooks = IF written >= 1 THEN Append(@, pb) ELSE @,
                   !.results = IF written >= 2 THEN Append(@, rs) ELSE @]

\* The distance the storage engine's embedding gives a document for a query
\* (lower is nearer): not part of this repository; here the difference in
\* length, and 0 only for the query itself.
Distance(query, document) ==
  IF query = document THEN 0
  ELSE 1 + (IF Len(query) >= Len(document) THEN Len(query) - Len(document)
            ELSE Len(document) - Len(query))

RECURSIVE InsertByScore(_, _)
\* x into the sorted xs, after every element whose score is not greater.
InsertByScore(xs, x) ==
  IF xs = <<>> THEN <<x>>
  ELSE IF xs[1].relevance_score <= x.relevance_score
  THEN <<xs[1]>> \o InsertByScore(Tail(xs), x)
  ELSE <<x>> \o xs

RECURSIVE SortByScore(_)
\* list.sort(key=relevance_score): ascending and stable.
SortByScore(xs) ==
  IF xs = <<>> THEN <<>>
  ELSE InsertByScore(SortByScore(SubSeq(xs, 1, Len(xs) - 1)), xs[Len(xs)])

\* xs[:n]
Take(xs, n) == SubSeq(xs, 1, IF n < Len(xs) THEN n ELSE Len(xs))

\* collection.query(query_texts=[query], n_results=n): the n nearest entries
\* with their distances, nearest first.
Query(collection, query, n, kind) ==
  LET scored == [i \in 1..Len(collection) |->
                   [type |-> kind, content |-> collection[i].document,
                    metadata |-> collection[i].metadata,
                    timestamp |-> collection[i].timestamp,
                    relevance_score |-> Distance(query, collection[i].document)]]
  IN Take(SortByScore(scored), n)

\* A retrieval that truncates the merged list without sorting it again.
get_context_merged(store, query, limit) ==
  Take(Query(store.interactions, query, limit, "interaction")
         \o Query(store.playbooks, query, limit, "playbook"), limit)

\* get_context when both queries succeed.
get_context(store, query, limit) ==
  LET context == Query(store.interactions, query, limit, "interaction")
                   \o Query(store.playbooks, query, limit, "playbook")
  IN Take(SortByScore(context), limit)

\* The three partitions, in the order clear_memory() walks them.
Partitions == <<"interactions", "playbooks", "results">>

\* BotMemory after __init__ on a store with the given documents: the client
\* holds one collection per partition (its generation; 0 when it holds
\* none), and each attribute refers to the collection of its name.
Memory(store) ==
  [store |-> store,
   client |-> [n \in {"interactions", "playbooks", "results"} |-> 1],
   attrs |-> [n \in {"interactions", "playbooks", "results"} |-> 1]]

\* The attribute refers to a collection the client still holds: a write
\* through any other handle raises.
Writable(mem, name) == mem.client[name] # 0 /\ mem.attrs[name] = mem.client[name]

RECURSIVE InsertByTimestamp(_, _)
\* x into xs sorted by descending timestamp, after every element whose
\* timestamp is not smaller.
InsertByTimestamp(xs, x) ==
  IF xs = <<>> THEN <<x>>
  ELSE IF xs[1].timestamp >= x.timestamp
  THEN <<xs[1]>> \o InsertByTimestamp(Tail(xs), x)
  ELSE <<x>> \o xs

RECURSIVE SortByTimestamp(_)
\* history.sort(key=timestamp, reverse=True): descending and stable.
SortByTimestamp(xs) ==
  IF xs = <<>> THEN <<>>
  ELSE InsertByTimestamp(SortByTimestamp(SubSeq(xs, 1, Len(xs) - 1)), xs[Len(xs)])

\* The positions of the entries of a collection that where={"type": type}
\* selects.
Where(collection, type) ==
  {i \in 1..Len(collection) : collection[i].metadata.type = Str(type)}

\* What collection.get(limit=limit, where=...) may return: any limit of the
\* selected entries (all of them when there are no more), in stored order;
\* the call asks the storage for no order.
GetChoices(collection, type, limit) ==
  LET selected == Where(collection, type)
      n == IF limit < Cardinality(selected) THEN limit ELSE Cardinality(selected)
  IN {picked \in SUBSET selected : Cardinality(picked) = n}

\* get_recent_history when the storage answers with the entries at picked.
get_recent_history(store, picked) ==
  LET results == SelectSeq([i \in 1..Len(store.interactions) |->
                              [at |-> i, e |-> store.interactions[i]]],
                           LAMBDA x : x.at \in picked)
      history == [i \in 1..Len(results) |->
                    [content |-> results[i].e.document,
                     metadata |-> results[i].e.metadata,
                     timestamp |-> results[i].e.timestamp]]
  IN SortByTimestamp(history)

\* A clear that creates the new collection and leaves the attribute on the
\* deleted one.
clear_collection_stale(mem, name, steps) ==
  IF name \notin DOMAIN mem.client \/ mem.client[name] = 0 \/ steps = 0
  THEN [mem |-> mem, raised |-> TRUE]
  ELSE [mem |-> [mem EXCEPT !.client[name] = @ + 1, !.store[name] = <<>>],
        raised |-> steps = 1]

\* delete_collection(name) followed by setattr(self, name,
\* _get_or_create_collection(name)); steps is how many of the two storage
\* operations succeed before one raises (2: both). Deleting a collection the
\* client does not hold raises.
clear_collection(mem, name, steps) ==
  IF name \notin DOMAIN mem.client \/ mem.client[name] = 0 \/ steps = 0
  THEN [mem |-> mem, raised |-> TRUE]
  ELSE LET deleted == [mem EXCEPT !.client[name] = 0, !.store[name] = <<>>]
       IN IF steps = 1
          THEN [mem |-> deleted, raised |-> TRUE]
          ELSE [mem |-> [deleted EXCEPT !.client[name] = mem.client[name] + 1,
                                        !.attrs[name] = mem.client[name] + 1],
                raised |-> FALSE]

RECURSIVE clear_collections(_, _, _, _)
\* for collection in ["interactions", "playbooks", "results"]: ...
clear_collections(mem, names, i, steps) ==
  IF i > Len(names) THEN [mem |-> mem, raised |-> FALSE]
  ELSE LET one == clear_collection(mem, names[i], IF steps > 2 THEN 2 ELSE steps)
       IN IF one.raised THEN one
          ELSE clear_collections(one.mem, names, i + 1, steps - 2)

\* clear_memory(collection_name): the exception of a storage operation is
\* caught and printed, what was done before it stays done.
clear_memory(mem, collection_name, steps) ==
  IF Truthy(collection_name)
  THEN clear_collection(mem, collection_name.v, steps)
  ELSE clear_collections(mem, Partitions, 1, steps)

(***************************************************************************)
(* Orchestrator: InfraBot.execute_task, one step per collaborator call     *)
(***************************************************************************)

VARIABLES
  system,      \* platform.system()
  verbose,     \* InfraBot.verbose
  prior,       \* how many earlier task executions the persisted store holds
  store,       \* BotMemory: the interactions, playbooks and results partitions
  client,      \* the collection the storage client holds under each name
  attrs,       \* the collection each attribute of BotMemory refers to
  clock,       \* ticks of datetime.now() / uuid4() drawn so far
  tmpfiles,    \* the temporary files that exist
  pc,          \* where execute_task is
  task,        \* task_description
  calls,       \* the collaborator calls of this execute_task, in order
  context,     \* what get_context returned
  result,      \* the local variable result
  exc,         \* str(e) of the exception in flight
  ret,         \* what execute_task returned
  outcome      \* "none" (running), "returned", or "raised" (exception escaped)

vars ==
  <<system, verbose, prior, store, client, attrs, clock, tmpfiles, pc, task, calls, context,
    result, exc, ret, outcome>>

\* How many earlier executions the store may hold at construction.
MaxPrior == 1

\* The task descriptions submitted.
Tasks ==
  { "show disk usage", "Check Disk Space now", "list users", "show system status",
    "cpu load", "get hostname", "install nginx on web servers",
    "Update all Debian servers" }

\* What crew.kickoff() can hand back as crew_result.raw.
CrewOutputs ==
  { None, Str(""), Num("5"), Num("0"),
    Str("I cannot help with that."),
    Str("STATUS: APPROVED\nAPPROACH: Ansible\nFINAL_CODE:\n- hosts: all\n  tasks:\n\n    - ping:"),
    Str("STATUS: APPROVED\nFINAL_CODE:\nsystemctl restart nginx"),
    Str("systemctl restart nginx"),
    Str("Run this:\n  systemctl restart nginx\nThen verify."),
    Str("First apt install nginx\nthen systemctl restart nginx"),
    Str("Here is the play:\n---\n- hosts: web\n  tasks:\n    - ping:\nDone"),
    Str("---\nhosts: web") }

\* The message of a storage failure.
StoreError == "storage unavailable"

\* The message of a pipeline failure.
PipelineError == "Request timed out"

\* The temporary file _execute_playbook writes the playbook to.
PlaybookPath == "/tmp/tmpplaybook.yml"

Call(op, arg, ok, res) == [op |-> op, arg |-> arg, ok |-> ok, res |-> res]

RECURSIVE PriorStore(_)
\* The store n earlier pipeline executions leave behind: the request, the
\* playbook/result pair and the task result of each; the even ones timed out.
PriorStore(n) ==
  IF n = 0 THEN EmptyStore
  ELSE LET t == IF n % 2 = 1 THEN "restart nginx on web servers" ELSE "install docker"
           raw == Str(IF n % 2 = 1 THEN "systemctl restart nginx" ELSE "apt install docker.io")
           r == parse_crew_result(raw, t)
           run == run_playbook(PlaybookPath,
                    IF n % 2 = 1
                    THEN [kind |-> "exit", rc |-> "0", stdout |-> "ok\n", stderr |-> ""]
                    ELSE [kind |-> "timeout", rc |-> "", stdout |-> "", stderr |-> ""])
           s1 == store_interaction(PriorStore(n - 1), 3 * n - 2, "user_request", t)
           s2 == store_playbook_execution(s1, 3 * n - 1, t, r.playbook_content.v, run, 2)
       IN store_interaction(s2, 3 * n, "task_result", StrDict(r))

Init ==
  /\ system \in Systems
  /\ verbose \in BOOLEAN
  /\ prior \in 0..MaxPrior
  /\ store = PriorStore(prior)
  /\ client = Memory(store).client
  /\ attrs = Memory(store).attrs
  /\ clock = 3 * prior
  /\ tmpfiles = {DefaultInventory}
  /\ pc = "idle"
  /\ task = ""
  /\ calls = <<>>
  /\ context = <<>>
  /\ result = EmptyDict
  /\ exc = ""
  /\ ret = EmptyDict
  /\ outcome = "none"

\* execute_task(task_description) is called.
StartTask ==
  /\ pc = "idle"
  /\ \E t \in Tasks : task' = t
  /\ pc' = "fastpath"
  /\ UNCHANGED <<system, verbose, prior, client, attrs, store, clock, tmpfiles, calls, context,
                 result, exc, ret, outcome>>

\* A fast path that never returns its result.
FastPathNeverDone(r) == FALSE

\* if result.get('success'): return result
FastPathDone(r) == Truthy(Get(r, "success"))

\* The gated fast path: it returns the query's result if that succeeded.
FastPathCheck ==
  /\ pc = "fastpath"
  /\ IF IsSimpleQuery(task)
     THEN \E o \in ProcOutcomes :
            LET q == execute_simple_query(system, task, o)
            IN /\ calls' = calls \o [i \in 1..Len(q.adhoc) |->
                                      Call("run_ad_hoc", q.adhoc[i].args, TRUE, q.adhoc[i].res)]
               /\ result' = q.ret
               /\ IF FastPathDone(q.ret)
                  THEN pc' = "done" /\ ret' = q.ret /\ outcome' = "returned"
                  ELSE pc' = "store_request" /\ UNCHANGED <<ret, outcome>>
     ELSE pc' = "store_request" /\ UNCHANGED <<calls, result, ret, outcome>>
  /\ UNCHANGED <<system, verbose, prior, client, attrs, store, clock, tmpfiles, task, context, exc>>

\* self.memory.store_interaction("user_request", task_description)
StoreUserRequest ==
  /\ pc = "store_request"
  /\ clock' = clock + 1
  /\ \E ok \in BOOLEAN :
       /\ calls' = Append(calls, Call("store_interaction", "user_request", ok, EmptyDict))
       /\ IF ok
          THEN /\ store' = store_interaction(store, clock', "user_request", task)
               /\ pc' = "get_context"
               /\ UNCHANGED exc
          ELSE /\ exc' = StoreError
               /\ pc' = "handler"
               /\ UNCHANGED store
  /\ UNCHANGED <<system, verbose, prior, client, attrs, tmpfiles, task, context, result, ret, outcome>>

\* context = self.memory.get_context(task_description, limit=3): a storage
\* failure is caught inside and gives [].
GetContext ==
  /\ pc = "get_context"
  /\ \E ok \in BOOLEAN :
       /\ calls' = Append(calls, Call("get_context", "", ok, EmptyDict))
       /\ context' = IF ok THEN get_context(store, task, 3) ELSE <<>>
  /\ pc' = "pipeline"
  /\ UNCHANGED <<system, verbose, prior, client, attrs, store, clock, tmpfiles, task, result, exc,
                 ret, outcome>>

\* result = self.crew.execute_task(task_description, context): a stage of
\* the pipeline raises, or kickoff returns and the extractor parses its output.
RunPipeline ==
  /\ pc = "pipeline"
  /\ \/ /\ calls' = Append(calls, Call("crew.execute_task", "", FALSE, EmptyDict))
        /\ exc' = PipelineError
        /\ pc' = "handler"
        /\ UNCHANGED result
     \/ \E raw \in CrewOutputs :
          /\ calls' = Append(calls, Call("crew.execute_task", "", TRUE, EmptyDict))
          /\ result' = parse_crew_result(raw, task)
          /\ pc' = "display"
          /\ UNCHANGED exc
  /\ UNCHANGED <<system, verbose, prior, client, attrs, store, clock, tmpfiles, task, context, ret,
                 outcome>>

\* A dispatch that falls back to the raw output.
PlaybookOrRawOutput(r) ==
  IF Truthy(Get(r, "playbook_content")) THEN Get(r, "playbook_content")
  ELSE Get(r, "raw_output")

\* The playbook handed to _execute_playbook, and the condition for doing so.
PlaybookToRun(r) == Get(r, "playbook_content")

\* The message of len() on a value without one.
NoLenError(x) ==
  "object of type '" \o TypeName(x) \o "' has no len()"

\* Lines 65-76 up to the call of _execute_playbook: the verbose display of
\* the raw output, the dispatch, and the summary shown when nothing is run.
Display ==
  /\ pc = "display"
  /\ LET raw == Get(result, "raw_output")
     IN IF Truthy(raw) /\ verbose /\ ~HasLen(raw)
        THEN exc' = NoLenError(raw) /\ pc' = "handler"
        ELSE IF Truthy(PlaybookToRun(result))
        THEN pc' = "playbook" /\ UNCHANGED exc
        ELSE IF Truthy(raw) /\ ~HasLen(raw)
        THEN exc' = NoLenError(raw) /\ pc' = "handler"
        ELSE pc' = "writeback" /\ UNCHANGED exc
  /\ UNCHANGED <<system, verbose, prior, client, attrs, store, clock, tmpfiles, task, calls, context,
                 result, ret, outcome>>

\* _execute_playbook(result['playbook_content'], task_description)
ExecutePlaybook ==
  /\ pc = "playbook"
  /\ LET playbook_content == PlaybookToRun(result)
     IN IF playbook_content.t # "str"
        THEN \* f.write raises before the try: the file stays
             /\ tmpfiles' = tmpfiles \cup {PlaybookPath}
             /\ exc' = "write() argument must be str, not " \o TypeName(playbook_content)
             /\ pc' = "handler"
             /\ UNCHANGED <<store, clock, calls>>
        ELSE \E o \in ProcOutcomes :
               LET run == run_playbook(PlaybookPath, o)
                   ran == Append(calls, Call("run_playbook", PlaybookPath, TRUE, run))
               IN IF ~Truthy(run["success"]) /\ "error" \notin DOMAIN run
                  THEN \* result['error'] raises KeyError; finally unlinks
                       /\ calls' = ran
                       /\ exc' = "'error'"
                       /\ pc' = "handler"
                       /\ tmpfiles' = (tmpfiles \cup {PlaybookPath}) \ {PlaybookPath}
                       /\ UNCHANGED <<store, clock>>
                  ELSE \E written \in 0..2 :
                         /\ calls' = Append(ran, Call("store_playbook_execution", "",
                                                      written = 2, EmptyDict))
                         /\ clock' = clock + 1
                         /\ store' = store_playbook_execution(store, clock', task,
                                       playbook_content.v, run, written)
                         /\ tmpfiles' = (tmpfiles \cup {PlaybookPath}) \ {PlaybookPath}
                         /\ IF written = 2
                            THEN pc' = "writeback" /\ UNCHANGED exc
                            ELSE pc' = "handler" /\ exc' = StoreError
  /\ UNCHANGED <<system, verbose, prior, client, attrs, task, context, result, ret, outcome>>

\* self.memory.store_interaction("task_result", result); return result
StoreTaskResult ==
  /\ pc = "writeback"
  /\ clock' = clock + 1
  /\ \E ok \in BOOLEAN :
       /\ calls' = Append(calls, Call("store_interaction", "task_result", ok, EmptyDict))
       /\ IF ok
          THEN /\ store' = store_interaction(store, clock', "task_result", StrDict(result))
               /\ pc' = "done"
               /\ ret' = result
               /\ outcome' = "returned"
               /\ UNCHANGED exc
          ELSE /\ exc' = StoreError
               /\ pc' = "handler"
               /\ UNCHANGED <<store, ret, outcome>>
  /\ UNCHANGED <<system, verbose, prior, client, attrs, tmpfiles, task, context, result>>

\* except Exception as e: the error is stored and returned; a failure of that
\* write is raised from the handler itself.
HandleError ==
  /\ pc = "handler"
  /\ clock' = clock + 1
  /\ LET error_msg == "Failed to execute task: " \o exc
     IN \E ok \in BOOLEAN :
          /\ calls' = Append(calls, Call("store_interaction", "error", ok, EmptyDict))
          /\ IF ok
             THEN /\ store' = store_interaction(store, clock', "error", error_msg)
                  /\ ret' = [error |-> Str(error_msg)]
                  /\ outcome' = "returned"
                  /\ UNCHANGED exc
             ELSE /\ exc' = StoreError
                  /\ outcome' = "raised"
                  /\ UNCHANGED <<store, ret>>
  /\ pc' = "done"
  /\ UNCHANGED <<system, verbose, prior, client, attrs, tmpfiles, task, context, result>>

Next ==
  \/ StartTask
  \/ FastPathCheck
  \/ StoreUserRequest
  \/ GetContext
  \/ RunPipeline
  \/ Display
  \/ ExecutePlaybook
  \/ StoreTaskResult
  \/ HandleError

Spec == Init /\ [][Next]_vars

(***************************************************************************)
(* BotMemory called on its own: the store's operations in any order        *)
(***************************************************************************)

\* How many operations one behaviour applies to the store.
MaxOps == 2

\* The largest limit a read is given.
MaxLimit == 3

\* The documents written and the texts queried.
Contents == {"restart nginx", "install docker on db servers"}

\* BotMemory as the variables hold it.
Mem == [store |-> store, client |-> client, attrs |-> attrs]

MemInit ==
  /\ system = "Linux"
  /\ verbose = FALSE
  /\ prior \in 0..MaxPrior
  /\ store = PriorStore(prior)
  /\ client = Memory(store).client
  /\ attrs = Memory(store).attrs
  /\ clock = 3 * prior
  /\ tmpfiles = {DefaultInventory}
  /\ pc = "memory"
  /\ task = ""
  /\ calls = <<>>
  /\ context = <<>>
  /\ result = EmptyDict
  /\ exc = ""
  /\ ret = EmptyDict
  /\ outcome = "none"

\* store_interaction(interaction_type, content): raises when the attribute's
\* collection is gone.
MemStoreInteraction ==
  /\ Len(calls) < MaxOps
  /\ clock' = clock + 1
  /\ \E interaction_type \in {"user_request", "error"}, content \in Contents :
       LET ok == Writable(Mem, "interactions")
       IN /\ calls' = Append(calls, Call("store_interaction", interaction_type, ok,
                                         Str(content)))
          /\ store' = IF ok THEN store_interaction(store, clock', interaction_type, content)
                      ELSE store
  /\ UNCHANGED <<system, verbose, prior, client, attrs, tmpfiles, pc, task, context,
                 result, exc, ret, outcome>>

\* store_playbook_execution(task_description, playbook_content, result)
MemStorePlaybookExecution ==
  /\ Len(calls) < MaxOps
  /\ clock' = clock + 1
  /\ \E o \in ProcOutcomes :
       LET written == IF ~Writable(Mem, "playbooks") THEN 0
                      ELSE IF ~Writable(Mem, "results") THEN 1 ELSE 2
           run == run_playbook(PlaybookPath, o)
       IN /\ calls' = Append(calls, Call("store_playbook_execution", "", written = 2, run))
          /\ store' = store_playbook_execution(store, clock', "restart nginx",
                                               "- hosts: web", run, written)
  /\ UNCHANGED <<system, verbose, prior, client, attrs, tmpfiles, pc, task, context,
                 result, exc, ret, outcome>>

\* get_context(query, limit): a query the storage refuses (a failure, a
\* deleted collection, n_results below 1) is caught and gives [].
MemGetContext ==
  /\ Len(calls) < MaxOps
  /\ \E query \in Contents, limit \in 0..MaxLimit, answered \in BOOLEAN :
       LET ok == /\ answered
                 /\ limit > 0
                 /\ Writable(Mem, "interactions")
                 /\ Writable(Mem, "playbooks")
       IN /\ context' = IF ok THEN get_context(store, query, limit) ELSE <<>>
          /\ calls' = Append(calls, Call("get_context", [query |-> query, limit |-> limit],
                                         ok, context'))
  /\ UNCHANGED <<system, verbose, prior, store, client, attrs, clock, tmpfiles, pc, task,
                 result, exc, ret, outcome>>

\* get_recent_history(limit): a failure of the storage is caught and gives [].
MemGetRecentHistory ==
  /\ Len(calls) < MaxOps
  /\ \E limit \in 1..MaxLimit :
       \/ /\ Writable(Mem, "interactions")
          /\ \E picked \in GetChoices(store.interactions, "user_request", limit) :
               calls' = Append(calls, Call("get_recent_history", limit, TRUE,
                                           get_recent_history(store, picked)))
       \/ calls' = Append(calls, Call("get_recent_history", limit, FALSE, <<>>))
  /\ UNCHANGED <<system, verbose, prior, store, client, attrs, clock, tmpfiles, pc, task,
                 context, result, exc, ret, outcome>>

\* clear_memory(collection_name); the call's record keeps the documents the
\* store held before it.
MemClearMemory ==
  /\ Len(calls) < MaxOps
  /\ \E collection_name \in {None, Str(""), Str("interactions"), Str("playbooks"),
                              Str("results"), Str("archive")},
        steps \in 0..(2 * Len(Partitions)) :
       LET cleared == clear_memory(Mem, collection_name, steps)
       IN /\ store' = cleared.mem.store
          /\ client' = cleared.mem.client
          /\ attrs' = cleared.mem.attrs
          /\ calls' = Append(calls, Call("clear_memory", collection_name, ~cleared.raised,
                                         store))
  /\ UNCHANGED <<system, verbose, prior, clock, tmpfiles, pc, task, context, result, exc,
                 ret, outcome>>

MemNext ==
  \/ MemStoreInteraction
  \/ MemStorePlaybookExecution
  \/ MemGetContext
  \/ MemGetRecentHistory
  \/ MemClearMemory

MemSpec == MemInit /\ [][MemNext]_vars

(***************************************************************************)
(* The extractor called on its own, on one InfraCrew instance              *)
(***************************************************************************)

\* How many extractions one behaviour makes.
MaxExtractions == 2

\* self._parse_crew_result(crew_result, task_description): the method reads
\* its two arguments and its locals, and no attribute of the instance.
ParseCrewResult(crew_result, task_description) ==
  parse_crew_result(crew_result, task_description)

ExtractInit ==
  /\ system = "Linux"
  /\ verbose = FALSE
  /\ prior \in 0..MaxPrior
  /\ store = PriorStore(prior)
  /\ client = Memory(store).client
  /\ attrs = Memory(store).attrs
  /\ clock = 3 * prior
  /\ tmpfiles = {DefaultInventory}
  /\ pc = "extract"
  /\ task = ""
  /\ calls = <<>>
  /\ context = <<>>
  /\ result = EmptyDict
  /\ exc = ""
  /\ ret = EmptyDict
  /\ outcome = "none"

\* The reviewer outputs extracted here: no text, a non-string, a refusal, a
\* tagged artifact, a bare command, a YAML block, an artifact followed by a
\* tag line, and a YAML block whose tasks: key is not indented.
ExtractOutputs ==
  { None, Num("5"),
    Str("I cannot help with that."),
    Str("STATUS: APPROVED\nAPPROACH: Ansible\nFINAL_CODE:\n- hosts: all\n  tasks:\n\n    - ping:"),
    Str("systemctl restart nginx"),
    Str("Here is the play:\n---\n- hosts: web\n  tasks:\n    - ping:\nDone"),
    Str("FINAL_CODE:\nsystemctl restart nginx\nSTATUS: APPROVED"),
    Str("---\n- hosts: web\ntasks:\n  - ping:\nDone") }

\* One extraction: one of these outputs, for one of two tasks.
Extract ==
  /\ Len(calls) < MaxExtractions
  /\ \E crew_result \in ExtractOutputs,
        task_description \in {"install nginx on web servers", "Update all Debian servers"} :
       /\ task' = task_description
       /\ result' = ParseCrewResult(crew_result, task_description)
       /\ calls' = Append(calls, Call("_parse_crew_result",
                                      [crew_result |-> crew_result,
                                       task_description |-> task_description],
                                      TRUE, result'))
  /\ UNCHANGED <<system, verbose, prior, store, client, attrs, clock, tmpfiles, pc,
                 context, exc, ret, outcome>>

ExtractNext == Extract

ExtractSpec == ExtractInit /\ [][ExtractNext]_vars

(***************************************************************************)
(* The Planner context built from a context list                           *)
(***************************************************************************)

\* The longest context list handed to crew.execute_task.
MaxContext == 3

RECURSIVE Repeat(_, _)
\* s * n
Repeat(s, n) == IF n = 0 THEN "" ELSE s \o Repeat(s, n - 1)

\* A playbook of more than 500 characters.
LongPlaybook == "- hosts: all\n  tasks:\n" \o Repeat("    - ping:\n", 50)

\* A context entry as get_context returns it.
ContextEntry(type, content, metadata, score) ==
  [type |-> type, content |-> content, metadata |-> metadata, timestamp |-> 1,
   relevance_score |-> score]

\* The entries a context list is made of: a past request, a playbook that
\* failed, and two that succeeded, one short and one long.
ContextEntries ==
  { ContextEntry("interaction", "restart nginx on web servers",
                 [type |-> Str("user_request")], 1),
    ContextEntry("playbook", "- hosts: db\n  tasks:\n    - shell: apt install docker.io",
                 [task |-> Str("install docker"), success |-> Bool(FALSE),
                  type |-> Str("playbook")], 2),
    ContextEntry("playbook", "- hosts: web\n  tasks:\n    - service: name=nginx state=restarted",
                 [task |-> Str("restart nginx"), success |-> Bool(TRUE),
                  type |-> Str("playbook")], 3),
    ContextEntry("playbook", LongPlaybook,
                 [task |-> Str("ping all servers"), success |-> Bool(TRUE),
                  type |-> Str("playbook")], 4) }

PlannerInit ==
  /\ system = "Linux"
  /\ verbose = FALSE
  /\ prior = 0
  /\ store = EmptyStore
  /\ client = Memory(store).client
  /\ attrs = Memory(store).attrs
  /\ clock = 0
  /\ tmpfiles = {DefaultInventory}
  /\ pc = "planner"
  /\ task = "install nginx on web servers"
  /\ calls = <<>>
  /\ context \in UNION {[1..n -> ContextEntries] : n \in 0..MaxContext}
  /\ result = EmptyDict
  /\ exc = ""
  /\ ret = EmptyDict
  /\ outcome = "none"

\* crew.execute_task(task_description, context) up to the Planner's task:
\* the call's record keeps the artifacts chosen and the text built of them.
PrepareContext ==
  /\ pc = "planner"
  /\ pc' = "prompted"
  /\ calls' = <<Call("crew.execute_task", task, TRUE,
                     [artifacts |-> planner_artifacts(context),
                      context_str |-> context_str(context)])>>
  /\ UNCHANGED <<system, verbose, prior, store, client, attrs, clock, tmpfiles, task,
                 context, result, exc, ret, outcome>>

PlannerNext == PrepareContext

PlannerSpec == PlannerInit /\ [][PlannerNext]_vars

(***************************************************************************)
(* Properties                                                              *)
(***************************************************************************)

\* The positions in calls of the calls of one collaborator operation.
CallsOf(op) == {i \in 1..Len(calls) : calls[i].op = op}

\* The writes store_interaction was asked for with a given type.
WritesOf(type) ==
  {i \in CallsOf("store_interaction") : calls[i].arg = type}

\* The entries this execute_task added to a partition.
NewEntries(partition) ==
  {i \in 1..Len(store[partition]) : store[partition][i].timestamp > 3 * prior}

\* The pipeline was started and raised.
PipelineRaised == \E i \in CallsOf("crew.execute_task") : ~calls[i].ok

\* The pipeline was started and returned its output to the extractor.
PipelineReturned == \E i \in CallsOf("crew.execute_task") : calls[i].ok

\* C1: execute_task never lets an exception escape: whatever fails inside
\* it, the failure of the error's own store write included, the call records
\* the error in the store and returns a result with an 'error' field.
C1_NoExceptionEscapes ==
  pc = "done" =>
    /\ outcome = "returned"
    /\ WritesOf("error") # {} =>
         /\ "error" \in DOMAIN ret
         /\ \E i \in NewEntries("interactions") :
              /\ store.interactions[i].metadata.type = Str("error")
              /\ Str(store.interactions[i].document) = ret["error"]

\* C2: when the pipeline raises for a task the fast path did not complete,
\* execute_task returns a result with an 'error' field, and the task
\* description was written as a 'user_request' before the pipeline started.
C2_PipelineFailureReported ==
  (pc = "done" /\ PipelineRaised) =>
    /\ outcome = "returned"
    /\ "error" \in DOMAIN ret
    /\ \E i \in WritesOf("user_request") :
         /\ calls[i].ok
         /\ \A j \in CallsOf("crew.execute_task") : i < j
    /\ \E i \in NewEntries("interactions") :
         /\ store.interactions[i].metadata.type = Str("user_request")
         /\ store.interactions[i].document = task

\* The platform's disk command.
DiskCommand == IF system = "Windows" THEN "dir C:" ELSE "df -h"

\* The ad-hoc call returned success with a non-empty stdout.
AdHocSucceeded(i) ==
  /\ calls[i].op = "run_ad_hoc"
  /\ calls[i].res["success"] = Bool(TRUE)
  /\ "stdout" \in DOMAIN calls[i].res
  /\ calls[i].res["stdout"].v # ""

\* C3: for "show disk usage", when the ad-hoc call returns success with a
\* non-empty stdout, the disk command has run exactly once, the result has
\* success = true and that stdout as output, and the pipeline was not called.
C3_ShowDiskUsage ==
  (pc = "done" /\ task = "show disk usage" /\ \E i \in 1..Len(calls) : AdHocSucceeded(i)) =>
    /\ Cardinality(CallsOf("run_ad_hoc")) = 1
    /\ calls[1].op = "run_ad_hoc"
    /\ calls[1].arg = DiskCommand
    /\ outcome = "returned"
    /\ ret = [success |-> Bool(TRUE), output |-> calls[1].res["stdout"],
              task |-> Str("show disk usage")]
    /\ CallsOf("crew.execute_task") = {}

C3_Witness ==
  /\ pc = "done"
  /\ task = "show disk usage"
  /\ Len(calls) = 1
  /\ AdHocSucceeded(1)
  /\ Get(ret, "output") = Str("ok\n")

\* The keywords of a mapping that occur in a lower-cased description.
MatchingIn(query_map, task_lower) ==
  {i \in 1..Len(query_map) : Contains(task_lower, query_map[i][1])}

\* The keywords of the platform mapping that occur in the description.
Matching == MatchingIn(get_os_commands(system), Lower(task))

\* The fast path has just issued its ad-hoc command.
AdHocJustRan == calls # <<>> /\ calls[Len(calls)].op = "run_ad_hoc"

\* C4: the command _execute_simple_query runs is the one mapped to a keyword
\* of maximal length among the keywords occurring in the description.
C4_LongestKeywordWins ==
  AdHocJustRan =>
    LET query_map == get_os_commands(system)
        matching == MatchingIn(query_map, Lower(task))
        longest == {i \in matching :
                      \A j \in matching : Len(query_map[j][1]) <= Len(query_map[i][1])}
    IN \E i \in longest : calls[Len(calls)].arg = query_map[i][2]

\* "list users" holds 'user', 'users' and 'list users': the last one's
\* command ran, which is not the command of 'user'.
C4_Witness ==
  /\ task = "list users"
  /\ system = "Linux"
  /\ Cardinality(Matching) = 3
  /\ \E c \in CallsOf("run_ad_hoc") :
       calls[c].arg = "cut -d: -f1 /etc/passwd | grep -v ^# | sort"

\* C5: an ad-hoc command is issued for a task exactly when the description
\* holds a keyword of the platform mapping: then one, before any pipeline
\* call, and none otherwise.
C5_AdHocIffKeyword ==
  pc \notin {"idle", "fastpath"} =>
    /\ Matching # {} => Cardinality(CallsOf("run_ad_hoc")) = 1
    /\ Matching = {} => CallsOf("run_ad_hoc") = {}
    /\ \A i \in CallsOf("run_ad_hoc") : \A j \in CallsOf("crew.execute_task") : i < j

\* The lines of the reviewer text the extractor was given.
RawLines == Split(result["raw_output"].v, "\n")

\* The extractor has just parsed a reviewer text.
Parsed ==
  /\ pc = "display"
  /\ result["raw_output"].t = "str"

\* The lines that start with FINAL_CODE:.
Markers == {i \in 1..Len(RawLines) : StartsWith(RawLines[i], "FINAL_CODE:")}

\* The non-blank lines after the first of them, as they are in the text.
AfterMarker ==
  LET m == CHOOSE i \in Markers : \A j \in Markers : i <= j
  IN SelectSeq(SubSeq(RawLines, m + 1, Len(RawLines)), LAMBDA l : Strip(l) # "")

\* C6: for a reviewer text with a FINAL_CODE: line followed by playbook
\* lines, playbook_content is those non-blank lines joined by newlines, each
\* character for character as in the text, leading indentation included.
C6_FinalCodeVerbatim ==
  (Parsed /\ Markers # {} /\ AfterMarker # <<>>) =>
    result["playbook_content"] = Str(Join(AfterMarker, "\n"))

\* The lines with a tag (STATUS:, APPROACH:, FINAL_CODE:).
TagLines ==
  {i \in 1..Len(RawLines) :
     \E tag \in {"STATUS:", "APPROACH:", "FINAL_CODE:"} : StartsWith(Strip(RawLines[i]), tag)}

\* The lines that hold a command substring of the fallback.
CommandLines ==
  {i \in 1..Len(RawLines) : AnyIn(command_substrings, Lower(RawLines[i]))}

\* The reviewer text of C7: no tag line, no YAML indicator, and a line that
\* holds 'systemctl restart nginx'.
C7_Case ==
  /\ Parsed
  /\ TagLines = {}
  /\ ~AnyIn(yaml_indicators, Lower(result["raw_output"].v))
  /\ \E i \in 1..Len(RawLines) : Contains(RawLines[i], "systemctl restart nginx")

C8_NullContentNothingExecuted ==
  ("playbook_content" \in DOMAIN result /\ result["playbook_content"] = None) =>
    /\ CallsOf("run_playbook") = {}
    /\ CallsOf("store_playbook_execution") = {}
    /\ NewEntries("playbooks") = {}
    /\ NewEntries("results") = {}
    /\ tmpfiles = {DefaultInventory}

\* A task whose reviewer text gave no artifact ran to its end.
C8_Witness ==
  /\ pc = "done"
  /\ outcome = "returned"
  /\ ret = result
  /\ Get(result, "raw_output") = Str("I cannot help with that.")
  /\ result["playbook_content"] = None

\* C9: the extractor returns a result for every pipeline output; when the
\* extraction raised, the result carries an 'error' field and status 'error',
\* and the task goes on to its memory write-back.
C9_ParseErrorDoesNotAbort ==
  (pc \in {"handler", "done"} /\ PipelineReturned) =>
    /\ {"task", "raw_output", "playbook_content", "approach", "status"} \subseteq DOMAIN result
    /\ "error" \in DOMAIN result =>
         /\ result["status"] = Str("error")
         /\ WritesOf("task_result") # {}

\* The executor ran the playbook and the process exited with a non-zero status.
NonZeroExit(i) ==
  /\ calls[i].op = "run_playbook"
  /\ "returncode" \in DOMAIN calls[i].res
  /\ calls[i].res["success"] = Bool(FALSE)

\* C10: when the playbook run exits non-zero, the execution is still
\* persisted: store_playbook_execution is called, and a playbook record and a
\* result record with success = false exist afterwards.
C10_FailedRunPersisted ==
  (\E i \in 1..Len(calls) : NonZeroExit(i)) =>
    /\ CallsOf("store_playbook_execution") # {}
    /\ \E i \in NewEntries("playbooks") :
         store.playbooks[i].metadata.success = Bool(FALSE)
    /\ \E i \in NewEntries("results") :
         store.results[i].metadata.success = Bool(FALSE)

\* The store was asked for a write and refused it.
FailedWrite(i) ==
  /\ calls[i].op \in {"store_interaction", "store_playbook_execution"}
  /\ calls[i].arg \in {"user_request", "task_result", ""}
  /\ ~calls[i].ok

\* C11: a store write that fails during a task (the user request, the
\* playbook execution or the task result) does not abort the task: the
\* pipeline still runs after a failed 'user_request' write, and the task
\* ends by returning its result, not in the error path.
C11_WriteFailureDoesNotAbort ==
  (\E i \in 1..Len(calls) : FailedWrite(i)) =>
    /\ pc # "handler"
    /\ pc = "done" =>
         /\ CallsOf("crew.execute_task") # {}
         /\ outcome = "returned"
         /\ ret = result

\* The fast path returned the query's result: nothing but the ad-hoc command
\* was called.
ShortCircuited ==
  /\ outcome = "returned"
  /\ Truthy(Get(ret, "success"))
  /\ \A i \in 1..Len(calls) : calls[i].op = "run_ad_hoc"

\* The extractor produced an artifact for the task, once.
ArtifactYielded ==
  /\ Cardinality({i \in CallsOf("crew.execute_task") : calls[i].ok}) = 1
  /\ {"approach", "status", "playbook_content"} \subseteq DOMAIN result

\* The task failed before the extractor ran and went to the error path.
FailedBeforeExtraction ==
  /\ ~PipelineReturned
  /\ WritesOf("error") # {}
  /\ PipelineRaised \/ \E i \in WritesOf("user_request") : ~calls[i].ok

\* C12 as stated: every finished execute_task either yielded exactly one
\* extracted artifact or was short-circuited by the fast path, not both, and
\* ran at most one ad-hoc command.
C12_ArtifactOrShortCircuit ==
  pc = "done" =>
    /\ ShortCircuited # ArtifactYielded
    /\ Cardinality(CallsOf("run_ad_hoc")) <= 1

\* C12 amended: every finished execute_task is exactly one of three: it was
\* short-circuited by the fast path, the extractor yielded exactly one
\* artifact, or it failed before the extractor ran (the 'user_request' write
\* or the pipeline raised) and took the error path with no artifact; in
\* every case at most one ad-hoc command and at most one pipeline call ran.
C12_ArtifactShortCircuitOrError ==
  pc = "done" =>
    /\ Cardinality({k \in 1..3 : \/ k = 1 /\ ShortCircuited
                                 \/ k = 2 /\ ArtifactYielded
                                 \/ k = 3 /\ FailedBeforeExtraction}) = 1
    /\ Cardinality(CallsOf("run_ad_hoc")) <= 1
    /\ Cardinality(CallsOf("crew.execute_task")) <= 1

\* The fast path's command failed, then the pipeline raised: no artifact.
C12_Witness ==
  /\ pc = "done"
  /\ Cardinality(CallsOf("run_ad_hoc")) = 1
  /\ PipelineRaised
  /\ FailedBeforeExtraction
  /\ "error" \in DOMAIN ret

\* C13: get_context returns at most limit entries, interactions and
\* playbooks together, in non-decreasing order of relevance_score, for every
\* query, limit and store content.
C13_ContextBoundedAndSorted ==
  \A i \in CallsOf("get_context") :
    LET limit == calls[i].arg.limit
        returned == calls[i].res
    IN /\ Len(returned) <= limit
       /\ \A j \in 1..(Len(returned) - 1) :
            returned[j].relevance_score <= returned[j + 1].relevance_score

\* A retrieval that had to merge and truncate: the store holds more entries
\* than the limit, and a playbook is returned ahead of an interaction.
C13_Witness ==
  \E i \in CallsOf("get_context") :
    /\ calls[i].arg.limit = 2
    /\ Len(store.interactions) + Len(store.playbooks) > 2
    /\ Len(calls[i].res) = 2
    /\ calls[i].res[1].type = "playbook"
    /\ calls[i].res[2].type = "interaction"
    /\ calls[i].res[1].relevance_score < calls[i].res[2].relevance_score

\* The 'user_request' entries of the store, by position.
UserRequests == Where(store.interactions, "user_request")

\* The n latest 'user_request' entries: those with fewer than n later ones.
Latest(n) ==
  {i \in UserRequests :
     Cardinality({j \in UserRequests :
                    store.interactions[j].timestamp > store.interactions[i].timestamp}) < n}

\* get_recent_history was the last call and the storage answered it.
HistoryRead ==
  /\ calls # <<>>
  /\ calls[Len(calls)].op = "get_recent_history"
  /\ calls[Len(calls)].ok

\* C14: get_recent_history(limit) returns the limit 'user_request' entries
\* with the latest timestamps (all of them when there are fewer), in
\* descending order of timestamp.
C14_RecentHistoryIsLatest ==
  HistoryRead =>
    LET returned == calls[Len(calls)].res
        limit == calls[Len(calls)].arg
    IN /\ {returned[j].timestamp : j \in 1..Len(returned)}
            = {store.interactions[i].timestamp : i \in Latest(limit)}
       /\ Len(returned) = Cardinality(Latest(limit))
       /\ \A j \in 1..(Len(returned) - 1) :
            returned[j].timestamp > returned[j + 1].timestamp

\* The positions in calls of the clear_memory calls that ran to their end.
Cleared == {i \in CallsOf("clear_memory") : calls[i].ok}

\* The partitions a clear_memory call names: all three when it is given no
\* name (or an empty one).
Named(collection_name) ==
  IF Truthy(collection_name) THEN {collection_name.v}
  ELSE {"interactions", "playbooks", "results"}

Extracted == pc = "display"

\* C17: every artifact the extractor returns has its approach among ansible,
\* shell, mixed and unknown, and its status among approved, needs_fixes and
\* unknown.
C17_ArtifactFieldsInRange ==
  Extracted =>
    /\ result["approach"] \in {Str("ansible"), Str("shell"), Str("mixed"), Str("unknown")}
    /\ result["status"] \in {Str("approved"), Str("needs_fixes"), Str("unknown")}

\* C18: when execute_task has finished, on whichever path, no temporary file
\* made for the executor remains: neither the generated playbook file nor
\* the default inventory file written at construction.
C18_NoTemporaryFileRemains ==
  pc = "done" => tmpfiles = {}

\* C19: when execute_task has finished, on whichever path, at least one new
\* record for the task has been written to the store.
C19_RecordWrittenAfterEveryTask ==
  pc = "done" =>
    \E p \in {"interactions", "playbooks", "results"} : NewEntries(p) # {}

\* The tags of the line-tagged extraction.
Tags == {"STATUS:", "APPROACH:", "RESULT:", "OUTPUT:", "FINAL_CODE:"}

\* The first line that, stripped, starts with FINAL_CODE: (0 when none does).
FirstMarker ==
  LET markers == {i \in 1..Len(RawLines) : StartsWith(Strip(RawLines[i]), "FINAL_CODE:")}
  IN IF markers = {} THEN 0 ELSE CHOOSE i \in markers : \A j \in markers : i <= j

\* The lines captured after FINAL_CODE:, as the tag loop keeps them: stripped,
\* without the blank lines and the tag lines.
Captured ==
  IF FirstMarker = 0 THEN <<>>
  ELSE LET after == SubSeq(RawLines, FirstMarker + 1, Len(RawLines))
           kept == SelectSeq(after, LAMBDA l :
                     /\ Strip(l) # ""
                     /\ \A tag \in Tags : ~StartsWith(Strip(l), tag))
       IN [i \in 1..Len(kept) |-> Strip(kept[i])]

\* What the YAML sniff gives on the text: its block, when the text holds an
\* indicator and more than two lines were collected.
Sniffed ==
  LET playbook_lines == YamlLoop(RawLines, 1, FALSE, <<>>)
  IN IF AnyIn(yaml_indicators, Lower(result["raw_output"].v)) /\ Len(playbook_lines) > 2
     THEN Str(Strip(Join(playbook_lines, "\n")))
     ELSE None

\* C20: the extractor's steps apply in strict priority: when lines were
\* captured after FINAL_CODE:, playbook_content is exactly those lines and
\* no sniff changes it; otherwise it is the YAML sniff's block when that
\* found one; and only when neither gave content is it the command sniff's
\* playbook (or null).
C20_ExtractionPriority ==
  Parsed =>
    LET content == result["playbook_content"]
    IN /\ Captured # <<>> => content = Str(Join(Captured, "\n"))
       /\ (Captured = <<>> /\ Truthy(Sniffed)) => content = Sniffed
       /\ (Captured = <<>> /\ ~Truthy(Sniffed)) =>
            \/ CommandLines = {} /\ ~Truthy(content)
            \/ \E i \in CommandLines :
                 /\ \A j \in CommandLines : i <= j
                 /\ content = Str(ShellPlaybook(RawLines[i]))

\* A line was captured after FINAL_CODE: in a text that also holds a command
\* substring, which the command sniff would have wrapped: the content is the
\* captured line.
C20_Witness ==
  /\ Parsed
  /\ Captured = <<"systemctl restart nginx">>
  /\ CommandLines # {}
  /\ result["playbook_content"] = Str("systemctl restart nginx")

\* The extractor has returned the artifact of a reviewer text.
TextExtracted ==
  /\ pc \in {"display", "extract"}
  /\ "raw_output" \in DOMAIN result
  /\ result["raw_output"].t = "str"

\* The non-blank lines after the first FINAL_CODE: line, tag lines included,
\* each stripped of surrounding blanks.
AfterFinalCode ==
  LET after == SubSeq(RawLines, FirstMarker + 1, Len(RawLines))
      kept == SelectSeq(after, LAMBDA l : Strip(l) # "")
  IN [i \in 1..Len(kept) |-> Strip(kept[i])]

\* C21: once a line starting with FINAL_CODE: was seen, every later
\* non-blank line is appended to the captured content, the later lines that
\* start with STATUS:, APPROACH:, RESULT:, OUTPUT: or FINAL_CODE: included.
C21_CaptureStaysOpen ==
  (TextExtracted /\ FirstMarker # 0 /\ AfterFinalCode # <<>>) =>
    result["playbook_content"] = Str(Join(AfterFinalCode, "\n"))

\* The lines that start a YAML block.
StartMarkers ==
  {i \in 1..Len(RawLines) :
     \/ StartsWith(Strip(RawLines[i]), "---")
     \/ StartsWith(Strip(RawLines[i]), "hosts:")
     \/ Contains(RawLines[i], "hosts: localhost")}

\* A line that is indented, is a list item, or is blank.
Collectable(line) ==
  \/ StartsWith(line, " ")
  \/ StartsWith(line, "\t")
  \/ StartsWith(Strip(line), "- ")
  \/ Strip(line) = ""

\* The block of C22: the first start marker line and the lines after it up
\* to the first one that is neither indented, nor a list item, nor blank.
Block ==
  LET start == CHOOSE i \in StartMarkers : \A j \in StartMarkers : i <= j
      stops == {i \in (start + 1)..Len(RawLines) : ~Collectable(RawLines[i])}
      end == IF stops = {} THEN Len(RawLines)
             ELSE (CHOOSE i \in stops : \A j \in stops : i <= j) - 1
  IN SubSeq(RawLines, start, end)

\* The YAML sniff ran on the text: nothing was captured after FINAL_CODE:,
\* the text holds an indicator and a start marker line.
YamlSniffed ==
  /\ TextExtracted
  /\ Captured = <<>>
  /\ AnyIn(yaml_indicators, Lower(result["raw_output"].v))
  /\ StartMarkers # {}

\* C22: the YAML sniff collects, after the start marker line, exactly the
\* lines that are indented, list items or blank, up to the first non-blank
\* unindented line, and the block becomes playbook_content if and only if
\* it has more than 2 lines (otherwise the content is left to the command
\* sniff).
C22_YamlBlockCollected ==
  YamlSniffed =>
    LET content == result["playbook_content"]
    IN IF Len(Block) > 2
       THEN content = Str(Strip(Join(Block, "\n")))
       ELSE \/ ~Truthy(content)
            \/ \E i \in CommandLines : content = Str(ShellPlaybook(RawLines[i]))

\* The positions in the context list of the successful playbooks.
Successful ==
  {i \in 1..Len(context) :
     /\ context[i].type = "playbook"
     /\ context[i].metadata.success = Bool(TRUE)}

\* The k-th of them, in the order of the list.
NthSuccessful(k) ==
  CHOOSE i \in Successful : Cardinality({j \in Successful : j < i}) = k - 1

\* C23: the Planner prompt holds at most 2 past artifacts, each a playbook
\* of the context whose success flag is true, in the order of the list, and
\* of each at most the first 500 characters of its content; no interaction
\* and no unsuccessful playbook is in it.
C23_PlannerContextBounded ==
  pc = "prompted" =>
    LET artifacts == calls[1].res.artifacts
        text == calls[1].res.context_str
    IN /\ Len(artifacts) <= 2
       /\ Len(artifacts) = IF Cardinality(Successful) < 2 THEN Cardinality(Successful) ELSE 2
       /\ \A k \in 1..Len(artifacts) :
            LET c == context[NthSuccessful(k)]
            IN /\ Len(artifacts[k].solution) <= 500
               /\ artifacts[k].solution = SubSeq(c.content, 1, Len(artifacts[k].solution))
               /\ Len(artifacts[k].solution) = 500 \/ artifacts[k].solution = c.content
               /\ artifacts[k].task = c.metadata.task.v
               /\ Contains(text, "Solution: " \o artifacts[k].solution \o "...\n")
       /\ \A i \in (1..Len(context)) \ Successful :
            ~Contains(text, context[i].content)
       /\ Len(text) <= 40 + Len(artifacts) * (500 + 60)
       /\ artifacts = <<>> => text = ""

\* Three successful playbooks were passed: the first two are in the prompt,
\* the long one cut to its first 500 characters.
C23_Witness ==
  /\ pc = "prompted"
  /\ Len(context) = 3
  /\ Cardinality(Successful) = 3
  /\ Len(context[2].content) > 500
  /\ Len(calls[1].res.artifacts) = 2
  /\ Len(calls[1].res.artifacts[2].solution) = 500

\* No store operation is in progress.
StoreAtRest == pc \in {"idle", "done", "memory"}

\* The playbook entry and the result entry are the two halves of one
\* execution: same correlation id, task, timestamp and success flag.
Paired(pb, rs) ==
  /\ pb.id.doc = rs.id.doc
  /\ pb.metadata.task = rs.metadata.task
  /\ pb.timestamp = rs.timestamp
  /\ pb.metadata.success = rs.metadata.success

\* C24: whenever no store operation is in progress, every entry of the
\* playbooks partition has its matching entry in the results partition, and
\* every entry of the results partition its matching playbook entry.
C24_PlaybookResultPairs ==
  StoreAtRest =>
    /\ \A i \in 1..Len(store.playbooks) :
         \E j \in 1..Len(store.results) : Paired(store.playbooks[i], store.results[j])
    /\ \A j \in 1..Len(store.results) :
         \E i \in 1..Len(store.playbooks) : Paired(store.playbooks[i], store.results[j])

\* The fast path ran a command and the command failed: a non-zero exit, an
\* empty stdout, or no run at all.
FastPathFailed ==
  /\ CallsOf("run_ad_hoc") # {}
  /\ \A i \in CallsOf("run_ad_hoc") : ~AdHocSucceeded(i)

\* C25: within one execute_task the pipeline is invoked exactly when the
\* fast path did not return a successful result; a task whose fast-path
\* command failed goes on to record the user request, retrieve the context
\* and run the pipeline.
C25_PipelineIffNotShortCircuited ==
  pc = "done" =>
    /\ CallsOf("crew.execute_task") # {} <=> ~ShortCircuited
    /\ FastPathFailed =>
         /\ WritesOf("user_request") # {}
         /\ CallsOf("get_context") # {}
         /\ CallsOf("crew.execute_task") # {}

====
